---- MODULE Spec2Model ----
(***************************************************************************)
(* Model of veracross_client.VeracrossClient: the token exchange done by   *)
(* __init__, the paginated GET loop of fetch_data_from_api and the         *)
(* accessor methods that wrap it (scope check, header assembly, catch-all  *)
(* handler).  One client object, a server holding a paged data set, and    *)
(* accessor calls that advance one network request at a time.              *)
(***************************************************************************)
EXTENDS Integers, Sequences, FiniteSets, TLC

\* ------------------------------------------------------------------------
\* Bounds of the model
\* ------------------------------------------------------------------------
MaxPages == 2
MaxPageLen == 2
MaxRequests == MaxPages + 2

Threads == {1, 2}
MainThreads == {1}

\* ------------------------------------------------------------------------
\* Values
\* ------------------------------------------------------------------------
Records == {1, 2}
Missing == "<missing>"
Unset == "<unset>"
None == "None"
\* a header entry that is not in the mapping (str() never yields it)
NoHeader == <<>>
\* the None that stands where a record was expected
NoneRecord == 0
NoScope == "<no scope check>"

RECURSIVE SeqsUpTo(_, _)
SeqsUpTo(S, n) ==
    IF n = 0 THEN {<<>>}
    ELSE LET shorter == SeqsUpTo(S, n - 1)
         IN  shorter \cup {Append(s, x) : s \in {q \in shorter : Len(q) = n - 1}, x \in S}

Pages == SeqsUpTo(Records, MaxPageLen)
DataSets == SeqsUpTo(Pages, MaxPages)
FillPage == <<1>>

RECURSIVE Concat(_)
Concat(pages) ==
    IF pages = <<>> THEN <<>> ELSE Head(pages) \o Concat(Tail(pages))

\* str(n) of a non-negative int, as its sequence of decimal digits
RECURSIVE Str(_)
Str(n) == IF n < 10 THEN <<n>> ELSE Str(n \div 10) \o <<n % 10>>

\* int(s) of a decimal digit string
RECURSIVE Int_(_)
Int_(s) == IF Len(s) = 1 THEN s[1]
           ELSE 10 * Int_(SubSeq(s, 1, Len(s) - 1)) + s[Len(s)]

\* ------------------------------------------------------------------------
\* __init__: the token exchange
\* ------------------------------------------------------------------------
TokenValues == {"tokA", "tokB"}

\* the decoded JSON bodies the token endpoint may answer with; a key that
\* maps to Missing is not in the dictionary
TokenResponses ==
    { [received |-> TRUE, access_token |-> tok, error_description |-> Missing] :
          tok \in TokenValues }
    \cup { [received |-> TRUE, access_token |-> Missing,
            error_description |-> "invalid_client"],
           [received |-> TRUE, access_token |-> Missing,
            error_description |-> Missing] }

\* no body was received
NoTokenResponse ==
    [received |-> FALSE, access_token |-> Missing, error_description |-> Missing]

\* outcome of conn.request / getresponse / json.loads
TokenTransport == {"answered", "exception"}

AllScopes == { "academics.assignments.grades:read",
               "academics.classes:list",
               "students:list",
               "Academics: Calendar Rotation Days",
               "update_assignment_grades",
               "academics.classes.assignments:create",
               "athletics.teams:update",
               "academics.rubric_criteria:update",
               "OAuth 2.0",
               "student_logistics_requests:read",
               "academics.permissions:read",
               "boarding.dorms.attendance:update" }

\* the scope lists a caller may pass: none, one scope, all of them
ScopeLists == {{}, {"students:list"}, AllScopes}

\* ------------------------------------------------------------------------
\* The accessor definitions modelled, in the order of the class body, with
\* what each one's body does
\*   line       the line of its def
\*   op         what its name and docstring say it does
\*   scope      the literal of its scope check (NoScope: it has none)
\*   noScopeRet what it returns when the check fails
\*   pageHeader whether its header mapping has an X-Page-Number entry
\*   pageArg    whether X-Page-Number comes from the x_page_number argument
\*   authArg    whether Authorization comes from an auth_token argument
\*   kind       "fetch": fetch_data_from_api(endpoint, headers, params)
\*              "fetch_badargs": a call the Fetcher's signature rejects
\*              "fetch_badargs_df": the same, in a method that ends with
\*                  return pd.DataFrame()
\*              "fetch_then_patch": the Fetcher, then requests.patch
\*              "patch": a direct requests.patch
\* ------------------------------------------------------------------------
Def(name, line, op, scope, noScopeRet, pageHeader, pageArg, authArg, kind) ==
    [name |-> name, line |-> line, op |-> op, scope |-> scope,
     noScopeRet |-> noScopeRet, pageHeader |-> pageHeader, pageArg |-> pageArg,
     authArg |-> authArg, kind |-> kind]

ClassBody ==
    << Def("get_assignment_grades", 111, "list",
           "Academics: Assignment Grades:list", "df", TRUE, TRUE, FALSE, "fetch"),
       Def("get_assignment_grades", 156, "read",
           "academics.assignments.grades:read", "df", TRUE, TRUE, FALSE, "fetch"),
       Def("update_assignment_grades", 193, "update",
           "update_assignment_grades", "none", FALSE, FALSE, FALSE, "fetch_badargs"),
       Def("get_calendar_rotation_day", 434, "read",
           "Academics: Calendar Rotation Days", "df", FALSE, FALSE, FALSE, "fetch"),
       Def("create_class_assignments", 470, "create",
           "academics.classes.assignments:create", "df", FALSE, FALSE, FALSE, "fetch"),
       Def("get_academics_classes", 802, "list",
           "academics.classes:list", "df", TRUE, TRUE, FALSE, "fetch"),
       Def("get_academics_classes", 909, "read",
           "academics.classes:list", "df", TRUE, FALSE, FALSE, "fetch"),
       Def("update_academics_rubric_criteria", 2449, "update",
           "academics.rubric_criteria:update", "df", FALSE, FALSE, TRUE, "patch"),
       Def("get_academics_class_permissions", 1036, "read",
           "academics.permissions:read", "df", FALSE, FALSE, FALSE, "fetch_badargs_df"),
       Def("update_admission_languages", 4360, "update",
           NoScope, "df", FALSE, FALSE, FALSE, "fetch_discard"),
       Def("update_athletics_teams", 5040, "update",
           "athletics.teams:update", "df", FALSE, FALSE, FALSE, "fetch_then_patch"),
       Def("update_behavior", 5289, "update",
           NoScope, "df", FALSE, FALSE, FALSE, "patch"),
       Def("update_boarding_dorm_attendance", 5423, "update",
           "boarding.dorms.attendance:update", "df", FALSE, FALSE, FALSE,
           "fetch_badargs_df"),
       Def("create_health_patient_medications", 7273, "create",
           NoScope, "df", FALSE, FALSE, FALSE, "fetch_badargs_df"),
       Def("update_programs_course", 8329, "update",
           NoScope, "df", FALSE, FALSE, FALSE, "fetch"),
       Def("get_relationships", 8534, "list",
           "relationships:list", "df", TRUE, TRUE, FALSE, "fetch"),
       Def("get_relationships", 8594, "read",
           NoScope, "df", FALSE, FALSE, FALSE, "fetch"),
       Def("delete_student_logistics_request", 9496, "delete",
           "OAuth 2.0", "df", FALSE, FALSE, FALSE, "fetch_discard"),
       Def("get_student_logistics_request", 9528, "read",
           "student_logistics_requests:read", "df", FALSE, FALSE, FALSE, "fetch"),
       Def("get_students", 9617, "list",
           "students:list", "df", TRUE, TRUE, FALSE, "fetch") >>

\* the position of the largest and of the smallest member of a set of numbers
MaxOf(S) == CHOOSE x \in S : \A y \in S : y <= x
MinOf(S) == CHOOSE x \in S : \A y \in S : x <= y

\* a class whose first def of a name would stay bound
Resolve_first(name) ==
    ClassBody[MinOf({i \in DOMAIN ClassBody : ClassBody[i].name = name})]

\* the function a name is bound to once the class body has run: each def
\* rebinds its name, so the last one stays
Resolve(name) ==
    ClassBody[MaxOf({i \in DOMAIN ClassBody : ClassBody[i].name = name})]

\* the methods of the client, by name
Accessor ==
    [name \in {ClassBody[i].name : i \in DOMAIN ClassBody} |-> Resolve(name)]

AccessorNames == DOMAIN Accessor

\* values of the x_page_number argument
PageNumbers == {1, 2, 9}

\* the arguments a caller can vary: x_page_number where the method takes it
\* (its default otherwise), auth_token where the method takes it
PageArgs(name) == IF Accessor[name].pageArg THEN PageNumbers ELSE {1}
AuthArgs(name) == IF Accessor[name].authArg THEN TokenValues ELSE {"tokA"}

\* ------------------------------------------------------------------------
\* HTTP responses of the API host
\* ------------------------------------------------------------------------
\* a response object: requests.get/patch raised (raised), or came back with
\* status_code and a JSON body that has a 'data' entry (has_data) or not;
\* the entry is a list (data), or null (data_null)
RaisedResponse ==
    [raised |-> TRUE, status_code |-> 0, has_data |-> FALSE, data |-> <<>>,
     data_null |-> FALSE]
HttpResponse(status, has, d) ==
    [raised |-> FALSE, status_code |-> status, has_data |-> has, data |-> d,
     data_null |-> FALSE]

\* a success response whose body is {"data": null}
NullDataResponse ==
    [raised |-> FALSE, status_code |-> 200, has_data |-> TRUE, data |-> <<>>,
     data_null |-> TRUE]

\* what the caller's mock or the network does to one request
ResponseKinds == {"ok", "ok_nodata", "status_err", "exception"}

\* the same, and a body whose 'data' is null
FetchKinds == ResponseKinds \cup {"ok_null"}

\* ------------------------------------------------------------------------
\* expand_dict_columns: values, frames and the function itself
\* ------------------------------------------------------------------------

\* a cell or a nested value: an integer, None, NaN (no value) or an object
\* with its items in order
IntV(n) == [tag |-> "int", n |-> n, items |-> <<>>]
NoneV == [tag |-> "none", n |-> 0, items |-> <<>>]
NaNV == [tag |-> "nan", n |-> 0, items |-> <<>>]
DictV(items) == [tag |-> "dict", n |-> 0, items |-> items]

\* names are strings, kept as sequences of characters
ColA == <<"a">>
ColAB == <<"a", "_", "b">>
ColB == <<"b">>
KeySeq == << <<"x">>, <<"y">>, <<"b", "_", "x">> >>

Range(s) == {s[i] : i \in DOMAIN s}

\* the values inside a nested object: integers, or one more object
InnerObjects == {DictV(<< <<KeySeq[1], IntV(1)>> >>)}
NestedValues == {IntV(1), IntV(2)} \cup InnerObjects

\* the nested objects: no key, one key or two keys
NestedObjects ==
    {DictV(<<>>)}
    \cup {DictV(<< <<KeySeq[i], v>> >>) : i \in DOMAIN KeySeq, v \in NestedValues}
    \cup {DictV(<< <<KeySeq[p[1]], v>>, <<KeySeq[p[2]], w>> >>) :
              p \in {q \in (DOMAIN KeySeq) \X (DOMAIN KeySeq) : q[1] < q[2]},
              v \in NestedValues, w \in NestedValues}

\* what a column of the input frames holds
Cells(column) ==
    CASE column = ColA -> {NoneV} \cup NestedObjects
      [] column = ColAB -> {NoneV, DictV(<< <<KeySeq[1], IntV(2)>> >>)}
      [] column = ColB -> {IntV(1), IntV(5)}

Layouts == {<<ColA, ColB>>, <<ColA, ColAB, ColB>>}

RECURSIVE RowsOf(_)
RowsOf(layout) ==
    IF layout = <<>> THEN {<<>>}
    ELSE {<<c>> \o rest : c \in Cells(Head(layout)), rest \in RowsOf(Tail(layout))}

\* a frame: its column labels and its rows, each row a cell per column
Frame(columns, rows) == [columns |-> columns, rows |-> rows]

\* pd.DataFrame(): no column, no row
EmptyFrame == Frame(<<>>, <<>>)

\* the frames over some layouts: the empty one, and one or two records
DataFramesOf(layouts) ==
    {EmptyFrame}
    \cup UNION {{Frame(l, <<r>>) : r \in RowsOf(l)} : l \in layouts}
    \cup UNION {{Frame(l, <<r1, r2>>) : r1 \in RowsOf(l), r2 \in RowsOf(l)} : l \in layouts}

\* the lists of columns to expand that are handed in
ColumnLists == {<<>>, <<ColA>>, <<ColAB>>, <<ColA, ColAB>>, <<ColAB, ColA>>, <<ColB>>}

\* row[column]
Cell(df, r, column) ==
    df.rows[r][CHOOSE p \in DOMAIN df.columns : df.columns[p] = column]

\* f"{column}_{key}"
NewColName(column, key) == column \o <<"_">> \o key

\* values_to_add[new_col_name] = value: a key that is there keeps its place
Put(d, name, value) ==
    IF \E i \in DOMAIN d : d[i][1] = name
    THEN [i \in DOMAIN d |-> IF d[i][1] = name THEN <<name, value>> ELSE d[i]]
    ELSE Append(d, <<name, value>>)

\* the items of an object with those of the objects inside it, one level down
Items_deep(dictionary) ==
    LET items == dictionary.items
        Sub(i) == IF items[i][2].tag = "dict"
                  THEN [k \in DOMAIN items[i][2].items |->
                           <<NewColName(items[i][1], items[i][2].items[k][1]),
                             items[i][2].items[k][2]>>]
                  ELSE <<items[i]>>
        upTo[i \in 0..Len(items)] == IF i = 0 THEN <<>> ELSE upTo[i - 1] \o Sub(i)
    IN  upTo[Len(items)]

\* dictionary.items()
Items(dictionary) == dictionary.items

\* for key, value in dictionary.items(): values_to_add[...] = value
RECURSIVE AddItems(_, _, _, _)
AddItems(values_to_add, column, items, i) ==
    IF i > Len(items) THEN values_to_add
    ELSE AddItems(Put(values_to_add, NewColName(column, items[i][1]), items[i][2]),
                  column, items, i + 1)

\* for column in columns_to_expand, from the j-th on; acc holds values_to_add
\* and the exception that ended the loop
RECURSIVE ColumnLoop(_, _, _, _, _)
ColumnLoop(df, r, columns_to_expand, j, acc) ==
    IF j > Len(columns_to_expand) \/ acc.exc # "none" THEN acc
    ELSE LET column == columns_to_expand[j] IN
         IF column \notin Range(df.columns)
         THEN [acc EXCEPT !.exc = "KeyError"]
         ELSE LET dictionary == Cell(df, r, column) IN
              IF dictionary.tag = "none"
              THEN ColumnLoop(df, r, columns_to_expand, j + 1, acc)
              ELSE IF dictionary.tag # "dict"
              THEN [acc EXCEPT !.exc = "AttributeError"]
              ELSE ColumnLoop(df, r, columns_to_expand, j + 1,
                              [acc EXCEPT !.d = AddItems(@, column, Items(dictionary), 1)])

\* values_to_add of one row
ValuesToAdd(df, r, columns_to_expand) ==
    ColumnLoop(df, r, columns_to_expand, 1, [exc |-> "none", d |-> <<>>])

\* expanded_rows, one values_to_add per row
ExpandedRows(df, columns_to_expand) ==
    [r \in DOMAIN df.rows |-> ValuesToAdd(df, r, columns_to_expand)]

\* the labels of a list of mappings, each at its first appearance
RECURSIVE AppendNew(_, _, _)
AppendNew(columns, d, i) ==
    IF i > Len(d) THEN columns
    ELSE AppendNew(IF d[i][1] \in Range(columns) THEN columns
                   ELSE Append(columns, d[i][1]), d, i + 1)

RECURSIVE UnionColumns(_, _, _)
UnionColumns(expanded_rows, r, columns) ==
    IF r > Len(expanded_rows) THEN columns
    ELSE UnionColumns(expanded_rows, r + 1, AppendNew(columns, expanded_rows[r].d, 1))

\* the cell pandas builds for a label from one mapping: NaN when it is missing
Lookup(d, name) ==
    IF \E i \in DOMAIN d : d[i][1] = name
    THEN d[CHOOSE i \in DOMAIN d : d[i][1] = name][2]
    ELSE NaNV

\* expanded_df = pd.DataFrame(expanded_rows)
ExpandedDf(expanded_rows) ==
    LET columns == UnionColumns(expanded_rows, 1, <<>>)
    IN  Frame(columns,
              [r \in DOMAIN expanded_rows |->
                  [j \in DOMAIN columns |-> Lookup(expanded_rows[r].d, columns[j])]])

\* df.drop(columns_to_expand, axis=1), the labels being there
Drop(df, columns_to_expand) ==
    LET Kept(p) == df.columns[p] \notin Range(columns_to_expand)
        kept == SelectSeq([p \in DOMAIN df.columns |-> p], Kept)
    IN  Frame([j \in DOMAIN kept |-> df.columns[kept[j]]],
              [r \in DOMAIN df.rows |-> [j \in DOMAIN kept |-> df.rows[r][kept[j]]]])

\* pd.concat([left, right], axis=1) of two frames with the same index
ConcatAxis1(left, right) ==
    Frame(left.columns \o right.columns,
          [r \in DOMAIN left.rows |-> left.rows[r] \o right.rows[r]])

\* what a call of expand_dict_columns comes to
FlatRaised(e) == [outcome |-> "raised", exc |-> e, out |-> EmptyFrame]
FlatReturned(df) == [outcome |-> "returned", exc |-> "none", out |-> df]
NoFlatResult == [outcome |-> "none", exc |-> "none", out |-> EmptyFrame]

\* expand_dict_columns: the loop over the rows ends at the first row that
\* raises; df.drop raises KeyError for a label that is not a column
expand_dict_columns(df, columns_to_expand) ==
    LET expanded_rows == ExpandedRows(df, columns_to_expand)
        failed == {r \in DOMAIN expanded_rows : expanded_rows[r].exc # "none"}
    IN  IF failed # {} THEN FlatRaised(expanded_rows[MinOf(failed)].exc)
        ELSE IF \E i \in DOMAIN columns_to_expand :
                    columns_to_expand[i] \notin Range(df.columns)
        THEN FlatRaised("KeyError")
        ELSE FlatReturned(ConcatAxis1(Drop(df, columns_to_expand),
                                      ExpandedDf(expanded_rows)))

\* the call of expand_dict_columns that has not been made
NoFlat == [phase |-> "idle", df |-> EmptyFrame, columns_to_expand |-> <<>>,
           res |-> NoFlatResult]

\* ------------------------------------------------------------------------
\* State
\* ------------------------------------------------------------------------
VARIABLES
    pc,             \* "new" before __init__, then "ready" or "ctor_raised"
    scopes,         \* self.scopes
    access_token,   \* self.access_token (Unset: the attribute does not exist)
    tokenResponse,  \* the body the token endpoint answered with
    tokenRequests,  \* number of POSTs to /oauth/token so far
    base_url,       \* self.base_url
    serverPages,    \* the server's data set, page 1 first
    endless,        \* the server invents a non-empty page past its data set
    rejecting,      \* the server no longer accepts the client's token
    call,           \* per thread: the accessor call in progress
    prev,           \* per thread: what the call before this one did
    flat            \* the call of expand_dict_columns: its input and result

vars == <<pc, scopes, access_token, tokenResponse, tokenRequests, base_url,
          serverPages, endless, rejecting, call, prev, flat>>

clientVars == <<pc, scopes, access_token, tokenResponse, tokenRequests, base_url>>
serverVars == <<serverPages, endless, rejecting>>

NoResult == [kind |-> "na", rows |-> <<>>]
NoneResult == [kind |-> "none", rows |-> <<>>]

\* pd.DataFrame(data): one row per record, in the list's order
DataFrame(data) == [kind |-> "df", rows |-> data]

\* pd.DataFrame()
EmptyDataFrame == [kind |-> "df", rows |-> <<>>]

IdleCall ==
    [ phase |-> "idle",          \* idle, fetching, patching, done
      name |-> "none",           \* the accessor called
      line |-> 0,                \* the line of the def that runs
      x_page_number |-> 0,       \* page number the header mapping starts with
      headers |-> [Authorization |-> NoHeader, XPageNumber |-> NoHeader,
                   XAPIRevision |-> NoHeader],
      params |-> <<>>,           \* the third argument handed to the Fetcher
      data |-> <<>>,             \* the Fetcher's accumulator
      requests |-> <<>>,         \* requests sent by this call
      responses |-> <<>>,        \* responses received by this call
      fetch |-> "not_called",    \* not_called, running, returned, raised
      outcome |-> "none",        \* none, returned, raised (to the caller)
      exc |-> "none",            \* the exception raised inside the call
      result |-> NoResult ]

\* what is remembered of a call that is over
NoPrev ==
    [name |-> "none", x_page_number |-> 0, pages |-> <<>>, healthy |-> TRUE,
     outcome |-> "none", result |-> NoResult]

\* f"Bearer {self.access_token}"
Bearer(token) == <<"Bearer", token>>

\* ------------------------------------------------------------------------
\* __init__
\* ------------------------------------------------------------------------
\* self.access_token after the try/except of __init__
TokenAfterInit(data) ==
    IF data.access_token # Missing THEN data.access_token ELSE Unset

\* whether __init__ raises: the except branch reads data['error_description']
InitRaises(data) ==
    data.access_token = Missing /\ data.error_description = Missing

\* f"https://api.veracross.com/{school_route}/v3"
BaseUrl(school_route) == <<"https://api.veracross.com/", school_route, "/v3">>

SchoolRoutes == {"school_name"}

\* the attribute before __init__ assigns it
NoUrl == <<>>

Construct(school_route, sc, transport, data) ==
    /\ pc = "new"
    /\ base_url' = BaseUrl(school_route)
    /\ scopes' = sc
    /\ tokenRequests' = tokenRequests + 1
    /\ IF transport = "exception"
       THEN /\ pc' = "ctor_raised"
            /\ tokenResponse' = NoTokenResponse
            /\ access_token' = Unset
       ELSE /\ tokenResponse' = data
            /\ access_token' = TokenAfterInit(data)
            /\ pc' = IF InitRaises(data) THEN "ctor_raised" ELSE "ready"
    /\ UNCHANGED <<serverVars, call, prev, flat>>

\* ------------------------------------------------------------------------
\* fetch_data_from_api
\* ------------------------------------------------------------------------
\* an accumulator that puts each new page in front
Extend_prepend(data, chunk_data) == chunk_data \o data

\* data.extend(chunk_data)
Extend(data, chunk_data) == data \o chunk_data

\* a lookup whose default is a page of one record
JsonGetData_fill(response) ==
    IF response.has_data THEN response.data ELSE FillPage

\* response.json().get('data', []), the entry being a list when it is there
JsonGetData(response) ==
    IF response.has_data THEN response.data ELSE <<>>

\* a page counter that skips a page
NextPageNumber_skip(header) == Str(Int_(header) + 2)

\* str(int(headers['X-Page-Number']) + 1)
NextPageNumber(header) == Str(Int_(header) + 1)

\* a test that only asks whether there is a list at all
Truthy_notNone(data) == TRUE

\* the truth value of a list: `if response:`
Truthy(data) == data # <<>>

\* return data, then what the accessor does with it: update_athletics_teams
\* goes on to its PATCH when the list is not empty and gives up otherwise,
\* the others df = pd.DataFrame(data); return df
FetchReturn(c) ==
    IF c.name \in DOMAIN Accessor /\ Accessor[c.name].kind = "fetch_then_patch"
    THEN IF Truthy(c.data)
         THEN [c EXCEPT !.phase = "patching", !.fetch = "returned"]
         ELSE [c EXCEPT !.phase = "done", !.fetch = "returned",
                        !.outcome = "returned", !.result = EmptyDataFrame]
    ELSE IF c.name \in DOMAIN Accessor /\ Accessor[c.name].kind = "fetch_discard"
    THEN [c EXCEPT !.phase = "done", !.fetch = "returned",
                   !.outcome = "returned", !.result = EmptyDataFrame]
    ELSE [c EXCEPT !.phase = "done", !.fetch = "returned",
                   !.outcome = "returned", !.result = DataFrame(c.data)]

\* a catch-all that keeps what was accumulated
FetchRaise_partial(c, e) ==
    [c EXCEPT !.phase = "done", !.fetch = "raised", !.outcome = "returned",
              !.exc = e, !.result = DataFrame(c.data)]

\* an exception leaves the Fetcher and lands in the accessor's catch-all
FetchRaise(c, e) ==
    [c EXCEPT !.phase = "done", !.fetch = "raised", !.outcome = "returned",
              !.exc = e, !.result = EmptyDataFrame]

\* an else branch that goes round the loop again
OnStatusError_retry(c) == c

\* an else branch that gives up what was accumulated
OnStatusError_drop(c) == FetchReturn([c EXCEPT !.data = <<>>])

\* an else branch that tries the refused request a second time
OnStatusError_again(c) == IF Len(c.requests) < 2 THEN c ELSE FetchReturn(c)

\* the else branch: print the status and break
OnStatusError(c) == FetchReturn(c)

\* a loop that stops by itself after two pages
OnSuccess_bounded(c, response) ==
    LET chunk_data == IF response.has_data THEN response.data ELSE <<>>
        c1 == [c EXCEPT !.data = c.data \o chunk_data]
    IN  IF chunk_data = <<>> \/ Len(c.requests) >= 2 THEN FetchReturn(c1)
        ELSE IF c.headers.XPageNumber = NoHeader THEN FetchRaise(c1, "KeyError")
        ELSE [c1 EXCEPT !.headers.XPageNumber = Str(Int_(@) + 1)]

\* a loop that ends quietly when there is no page number to increment
OnSuccess_nokey(c, response) ==
    LET chunk_data == JsonGetData(response)
        c1 == [c EXCEPT !.data = Extend(c.data, chunk_data)]
    IN  IF chunk_data = <<>> THEN FetchReturn(c1)
        ELSE IF c.headers.XPageNumber = NoHeader THEN FetchReturn(c1)
        ELSE [c1 EXCEPT !.headers.XPageNumber = NextPageNumber(@)]

\* a loop that empties the rest of what it was handed as it turns the page
OnSuccess_touch(c, response) ==
    LET chunk_data == JsonGetData(response)
        c1 == [c EXCEPT !.data = Extend(c.data, chunk_data)]
    IN  IF response.data_null THEN FetchRaise(c, "TypeError")
        ELSE IF chunk_data = <<>> THEN FetchReturn(c1)
        ELSE IF c.headers.XPageNumber = NoHeader THEN FetchRaise(c1, "KeyError")
        ELSE [c1 EXCEPT !.headers.XPageNumber = NextPageNumber(@),
                        !.headers.XAPIRevision = NoHeader,
                        !.params = <<>>]

\* the status_code == 200 branch
OnSuccess(c, response) ==
    LET chunk_data == JsonGetData(response)
        c1 == [c EXCEPT !.data = Extend(c.data, chunk_data)]
    IN  IF response.data_null
        THEN \* data.extend(None): 'NoneType' object is not iterable
             FetchRaise(c, "TypeError")
        ELSE IF chunk_data = <<>> THEN FetchReturn(c1)
        ELSE IF c.headers.XPageNumber = NoHeader THEN FetchRaise(c1, "KeyError")
        ELSE [c1 EXCEPT !.headers.XPageNumber = NextPageNumber(@)]

\* response.json().get('data'), the body's 'data' being one object
JsonGet(response) ==
    IF response.has_data THEN response.data[1] ELSE NoneRecord

\* one iteration of the while loop, after requests.get
HandleResponse(c, response) ==
    IF response.raised THEN FetchRaise(c, "RequestException")
    ELSE IF response.status_code = 200 THEN OnSuccess(c, response)
    ELSE OnStatusError(c)

\* ------------------------------------------------------------------------
\* The server
\* ------------------------------------------------------------------------
\* the page of the data set a request with this X-Page-Number header gets
PageAt(header) ==
    LET n == IF header = NoHeader THEN 1 ELSE Int_(header)
    IN  IF n <= Len(serverPages) THEN serverPages[n]
        ELSE IF endless THEN FillPage ELSE <<>>

ServerAnswer(kind, header) ==
    CASE kind = "ok" -> HttpResponse(200, TRUE, PageAt(header))
      [] kind = "ok_nodata" -> HttpResponse(200, FALSE, <<>>)
      [] kind = "status_err" -> HttpResponse(401, FALSE, <<>>)
      [] kind = "exception" -> RaisedResponse
      [] kind = "ok_null" -> NullDataResponse

Request(verb, headers) ==
    [verb |-> verb, XPageNumber |-> headers.XPageNumber,
     Authorization |-> headers.Authorization]

\* ------------------------------------------------------------------------
\* Accessors
\* ------------------------------------------------------------------------
\* a class that checks a scope of its own where a method has no check
ScopeCheckPasses_default(name, sc) == Accessor[name].scope \in sc

ScopeCheckPasses(name, sc) ==
    Accessor[name].scope = NoScope \/ Accessor[name].scope \in sc

\* the page number the accessor's header mapping starts with: its
\* x_page_number argument, or the literal '1' (0: it has no such entry)
StartPage(name, x_page_number) ==
    IF ~Accessor[name].pageHeader THEN 0
    ELSE IF Accessor[name].pageArg THEN x_page_number
    ELSE 1

\* 'X-API-Revision': x_api_revision, the argument left at its default
XAPIRevisionHeader == <<None>>

\* a header mapping that always starts at the first page
BuildHeaders_first(name, x_page_number, token) ==
    [ Authorization |-> Bearer(token),
      XPageNumber |-> IF ~Accessor[name].pageHeader THEN NoHeader ELSE <<1>>,
      XAPIRevision |-> <<None>> ]

\* the header mapping the accessor builds
BuildHeaders(name, x_page_number, token) ==
    [ Authorization |-> Bearer(token),
      XPageNumber |-> IF ~Accessor[name].pageHeader THEN NoHeader
                      ELSE IF Accessor[name].pageArg THEN Str(x_page_number)
                      ELSE <<1>>,
      XAPIRevision |-> XAPIRevisionHeader ]

\* the mapping the accessor hands the Fetcher as its third argument
BuildParams(name) == <<"params", name>>

\* the accessor's body up to its first network request
\* a Fetcher that takes whatever it is called with
AcceptsCall_any(kind) == TRUE

\* fetch_data_from_api(self, endpoint, headers, params) takes three
\* arguments: a call with two or four, or with method= or json_body=, is a
\* TypeError before the body runs
AcceptsCall(kind) == kind \notin {"fetch_badargs", "fetch_badargs_df"}

BeginCall(name, x_page_number, auth_token, sc, token) ==
    LET acc == Accessor[name]
        c0 == [IdleCall EXCEPT !.name = name, !.line = acc.line]
    IN  IF ~ScopeCheckPasses(name, sc)
        THEN [c0 EXCEPT !.phase = "done", !.outcome = "returned",
                        !.result = IF acc.noScopeRet = "df" THEN EmptyDataFrame
                                   ELSE NoneResult]
        ELSE IF ~acc.authArg /\ token = Unset
        THEN \* building the header mapping reads self.access_token
             [c0 EXCEPT !.phase = "done", !.outcome = "raised",
                        !.exc = "AttributeError"]
        ELSE LET h == BuildHeaders(name, x_page_number,
                                   IF acc.authArg THEN auth_token ELSE token)
                 c1 == [c0 EXCEPT !.headers = h,
                                  !.params = BuildParams(name),
                                  !.x_page_number = StartPage(name, x_page_number)]
             IN  CASE ~AcceptsCall(acc.kind) ->
                        \* TypeError at the call, caught by the catch-all
                        [c1 EXCEPT !.phase = "done", !.outcome = "returned",
                                   !.exc = "TypeError",
                                   !.result = IF acc.kind = "fetch_badargs"
                                              THEN NoneResult ELSE EmptyDataFrame]
                   [] AcceptsCall(acc.kind) /\ acc.kind # "patch" ->
                        [c1 EXCEPT !.phase = "fetching", !.fetch = "running",
                                   !.headers.Authorization = Bearer(token)]
                   [] acc.kind = "patch" ->
                        [c1 EXCEPT !.phase = "patching"]

\* an accessor that keeps the token it was handed
StartCall_store(t, name, x_page_number, auth_token) ==
    /\ pc = "ready"
    /\ call[t].phase = "idle"
    /\ call' = [call EXCEPT ![t] =
                   BeginCall(name, x_page_number, auth_token, scopes, access_token)]
    /\ access_token' = IF Accessor[name].authArg THEN auth_token ELSE access_token
    /\ UNCHANGED <<pc, scopes, tokenResponse, tokenRequests, base_url,
                   serverVars, prev, flat>>

\* an accumulator that lives on the client and is never emptied
StartCall_stale(t, name, x_page_number, auth_token) ==
    /\ pc = "ready"
    /\ call[t].phase = "idle"
    /\ call' = [call EXCEPT ![t] =
                   [BeginCall(name, x_page_number, auth_token, scopes, access_token)
                       EXCEPT !.data = prev[t].result.rows]]
    /\ UNCHANGED <<clientVars, serverVars, prev, flat>>

StartCall(t, name, x_page_number, auth_token) ==
    /\ pc = "ready"
    /\ call[t].phase = "idle"
    /\ call' = [call EXCEPT ![t] =
                   BeginCall(name, x_page_number, auth_token, scopes, access_token)]
    /\ UNCHANGED <<clientVars, serverVars, prev, flat>>

\* the call after one more GET of the Fetcher's loop
AfterGet(c, kind) ==
    LET response == ServerAnswer(kind, c.headers.XPageNumber)
        c1 == [c EXCEPT !.requests = Append(@, Request("GET", c.headers)),
                        !.responses = Append(@, response)]
    IN  HandleResponse(c1, response)

\* a Fetcher that asks for a new token when a request is refused
Get_refresh(t, kind) ==
    /\ call[t].phase = "fetching"
    /\ Len(call[t].requests) < MaxRequests
    /\ rejecting => kind = "status_err"
    /\ call' = [call EXCEPT ![t] = AfterGet(call[t], kind)]
    /\ IF kind = "status_err"
       THEN /\ access_token' = "tokB"
            /\ tokenRequests' = tokenRequests + 1
       ELSE UNCHANGED <<access_token, tokenRequests>>
    /\ UNCHANGED <<pc, scopes, tokenResponse, base_url, serverVars, prev, flat>>

\* a header mapping that lives on the client: the page number one call
\* writes is the page number every running call reads next
Get_shared(t, kind) ==
    /\ call[t].phase = "fetching"
    /\ Len(call[t].requests) < MaxRequests
    /\ rejecting => kind = "status_err"
    /\ LET c == AfterGet(call[t], kind)
       IN  call' = [u \in Threads |->
                       IF u = t THEN c
                       ELSE IF call[u].phase = "fetching"
                       THEN [call[u] EXCEPT !.headers = c.headers]
                       ELSE call[u]]
    /\ UNCHANGED <<clientVars, serverVars, prev, flat>>

\* one GET of the Fetcher's loop and the handling of its response
Get(t, kind) ==
    /\ call[t].phase = "fetching"
    /\ Len(call[t].requests) < MaxRequests
    /\ rejecting => kind = "status_err"
    /\ call' = [call EXCEPT ![t] = AfterGet(call[t], kind)]
    /\ UNCHANGED <<clientVars, serverVars, prev, flat>>

\* the call is over with this result
Finish(c, result) ==
    [c EXCEPT !.phase = "done", !.outcome = "returned", !.result = result]

\* requests.patch and the handling of its response, as each accessor that
\* patches does it
HandlePatchResponse(c, response) ==
    IF response.raised
    THEN Finish([c EXCEPT !.exc = "RequestException"], EmptyDataFrame)
    ELSE IF response.status_code # 200
    THEN Finish(c, EmptyDataFrame)
    ELSE CASE c.name = "update_behavior" ->
                \* pd.DataFrame([behavior_data])
                Finish(c, DataFrame(<<JsonGet(response)>>))
           [] c.name = "update_academics_rubric_criteria" ->
                \* pd.DataFrame(response.json().get('data', {})): an object
                \* of scalars makes pandas raise ValueError, {} gives no rows
                Finish([c EXCEPT !.exc = IF response.has_data THEN "ValueError"
                                         ELSE "none"], EmptyDataFrame)
           [] OTHER ->
                \* pd.DataFrame(response.json().get('data', []))
                Finish(c, DataFrame(JsonGetData(response)))

PatchAnswer(kind, record) ==
    CASE kind = "ok" -> HttpResponse(200, TRUE, <<record>>)
      [] kind = "ok_nodata" -> HttpResponse(200, FALSE, <<>>)
      [] kind = "status_err" -> HttpResponse(401, FALSE, <<>>)
      [] kind = "exception" -> RaisedResponse

Patch(t, kind, record) ==
    /\ call[t].phase = "patching"
    /\ rejecting => kind = "status_err"
    /\ LET c == call[t]
           response == PatchAnswer(kind, record)
           c1 == [c EXCEPT !.requests = Append(@, Request("PATCH", c.headers)),
                           !.responses = Append(@, response)]
       IN  call' = [call EXCEPT ![t] = HandlePatchResponse(c1, response)]
    /\ UNCHANGED <<clientVars, serverVars, prev, flat>>

\* the call is over; the caller may call again
Return(t) ==
    /\ call[t].phase = "done"
    /\ call' = [call EXCEPT ![t] = IdleCall]
    /\ UNCHANGED <<clientVars, serverVars, prev, flat>>

\* a 200 response that carries 'data'
HealthyResponse(r) ==
    ~r.raised /\ r.status_code = 200 /\ r.has_data /\ ~r.data_null

\* what a finished call leaves for the comparison with the next one
Summary(c) ==
    [name |-> c.name, x_page_number |-> c.x_page_number,
     pages |-> [i \in 1..Len(c.requests) |-> c.requests[i].XPageNumber],
     healthy |-> \A i \in 1..Len(c.responses) : HealthyResponse(c.responses[i]),
     outcome |-> c.outcome, result |-> c.result]

\* the call is over and the caller keeps what it did
ReturnAndRemember(t) ==
    /\ call[t].phase = "done"
    /\ call' = [call EXCEPT ![t] = IdleCall]
    /\ prev' = [prev EXCEPT ![t] = Summary(call[t])]
    /\ UNCHANGED <<clientVars, serverVars, flat>>

\* the token expires or is revoked: from now on every request is refused
RejectToken ==
    /\ pc = "ready"
    /\ ~rejecting
    /\ rejecting' = TRUE
    /\ UNCHANGED <<clientVars, serverPages, endless, call, prev, flat>>

\* ------------------------------------------------------------------------
\* Specification
\* ------------------------------------------------------------------------
Init ==
    /\ pc = "new"
    /\ scopes = {}
    /\ access_token = Unset
    /\ tokenResponse = NoTokenResponse
    /\ tokenRequests = 0
    /\ base_url = NoUrl
    /\ serverPages \in DataSets
    /\ endless \in BOOLEAN
    /\ rejecting = FALSE
    /\ call = [t \in Threads |-> IdleCall]
    /\ prev = [t \in Threads |-> NoPrev]
    /\ flat = NoFlat

Next ==
    \/ \E sr \in SchoolRoutes, sc \in ScopeLists, tr \in TokenTransport,
          d \in TokenResponses :
           Construct(sr, sc, tr, d)
    \/ \E t \in MainThreads, n \in AccessorNames :
           \E p \in PageArgs(n), a \in AuthArgs(n) : StartCall(t, n, p, a)
    \/ \E t \in MainThreads, k \in ResponseKinds : Get(t, k)
    \/ \E t \in MainThreads, k \in ResponseKinds, r \in Records : Patch(t, k, r)
    \/ \E t \in MainThreads : Return(t)

Spec == Init /\ [][Next]_vars

\* the loop of a Fetcher keeps running while the server answers
Fairness == \A t \in MainThreads : WF_vars(\E k \in ResponseKinds : Get(t, k))

LiveSpec == Init /\ [][Next]_vars /\ Fairness

\* the client right after a construction that obtained a token
ReadyInit ==
    /\ pc = "ready"
    /\ scopes \in ScopeLists
    /\ access_token \in TokenValues
    /\ tokenResponse = [received |-> TRUE, access_token |-> access_token,
                        error_description |-> Missing]
    /\ tokenRequests = 1
    /\ base_url \in {BaseUrl(sr) : sr \in SchoolRoutes}
    /\ serverPages \in DataSets
    /\ endless \in BOOLEAN
    /\ rejecting = FALSE
    /\ call = [t \in Threads |-> IdleCall]
    /\ prev = [t \in Threads |-> NoPrev]
    /\ flat = NoFlat

\* the accessors that only read
ReadOnlyNames == {n \in AccessorNames : Accessor[n].op \in {"list", "read"}}

\* a caller that repeats read-only calls against a server whose data set
\* ends and that answers every request
IdemInit == ReadyInit /\ ~endless

IdemNext ==
    \/ \E t \in MainThreads, n \in ReadOnlyNames :
           \E p \in PageArgs(n), a \in AuthArgs(n) : StartCall(t, n, p, a)
    \/ \E t \in MainThreads : Get(t, "ok")
    \/ \E t \in MainThreads : ReturnAndRemember(t)

IdemSpec == IdemInit /\ [][IdemNext]_vars

\* the accessors two threads call at the same time
ConcNames == {"get_academics_classes", "get_students"}

\* two threads share one client that holds every scope; the server's data
\* set ends and does not change, and the server answers every request
ConcInit ==
    /\ ReadyInit
    /\ ~endless
    /\ scopes = AllScopes
    /\ access_token = "tokA"
    /\ base_url = BaseUrl("school_name")

ConcNext ==
    \/ \E t \in Threads, n \in ConcNames :
           \E p \in PageArgs(n), a \in AuthArgs(n) : StartCall(t, n, p, a)
    \/ \E t \in Threads : Get(t, "ok")
    \/ \E t \in Threads : Return(t)

ConcSpec == ConcInit /\ [][ConcNext]_vars

\* the answers of a server that is up: a page, or a refusal
UpKinds == {"ok", "status_err"}

\* calls against a server that at some point starts to refuse the client's
\* token and refuses it from then on
RejectInit == ReadyInit /\ ~endless

RejectNext ==
    \/ \E t \in MainThreads, n \in AccessorNames :
           \E p \in PageArgs(n), a \in AuthArgs(n) : StartCall(t, n, p, a)
    \/ \E t \in MainThreads, k \in UpKinds : Get(t, k)
    \/ \E t \in MainThreads, k \in UpKinds, r \in Records : Patch(t, k, r)
    \/ \E t \in MainThreads : Return(t)
    \/ RejectToken

RejectSpec == RejectInit /\ [][RejectNext]_vars

\* one call of expand_dict_columns on a frame the caller built
Flatten ==
    /\ flat.phase = "input"
    /\ flat' = [flat EXCEPT !.phase = "done",
                            !.res = expand_dict_columns(flat.df, flat.columns_to_expand)]
    /\ UNCHANGED <<clientVars, serverVars, call, prev>>

\* a constructed client and a frame and a list of columns handed to
\* expand_dict_columns
FlattenInit ==
    /\ pc = "ready"
    /\ scopes = {}
    /\ access_token \in {"tokA"}
    /\ tokenResponse = [received |-> TRUE, access_token |-> access_token,
                        error_description |-> Missing]
    /\ tokenRequests = 1
    /\ base_url \in {BaseUrl(sr) : sr \in SchoolRoutes}
    /\ serverPages = <<>>
    /\ endless = FALSE
    /\ rejecting = FALSE
    /\ call = [t \in Threads |-> IdleCall]
    /\ prev = [t \in Threads |-> NoPrev]
    /\ flat \in {[phase |-> "input", df |-> df, columns_to_expand |-> c,
                   res |-> NoFlatResult] : df \in DataFramesOf(Layouts), c \in ColumnLists}

FlattenNext == Flatten

FlattenSpec == FlattenInit /\ [][FlattenNext]_vars

\* the accessors whose call of the Fetcher is accepted
FetcherNames ==
    {n \in AccessorNames : AcceptsCall(Accessor[n].kind) /\ Accessor[n].kind # "patch"}

\* calls of the Fetcher against a server whose bodies may hold a list, no
\* 'data' entry, or a null one
DataInit == ReadyInit

DataNext ==
    \/ \E t \in MainThreads, n \in FetcherNames :
           \E p \in PageArgs(n), a \in AuthArgs(n) : StartCall(t, n, p, a)
    \/ \E t \in MainThreads, k \in FetchKinds : Get(t, k)
    \/ \E t \in MainThreads : Return(t)

DataSpec == DataInit /\ [][DataNext]_vars

\* ------------------------------------------------------------------------
\* Vocabulary of the properties
\* ------------------------------------------------------------------------
\* a 200 response whose 'data' is a non-empty page
NonEmptyOk(r) == ~r.raised /\ r.status_code = 200 /\ r.has_data /\ r.data # <<>>

\* a 200 response whose 'data' is the empty list
EmptyOk(r) ==
    ~r.raised /\ r.status_code = 200 /\ r.has_data /\ ~r.data_null /\ r.data = <<>>

\* a 200 response, with or without 'data'
SuccessResponse(r) == ~r.raised /\ r.status_code = 200

\* a response with a non-success status
StatusError(r) == ~r.raised /\ r.status_code # 200

\* the pages carried by the first n responses
PagesOf(rs, n) == [i \in 1..n |-> rs[i].data]

\* n >= 0 non-empty pages, then an empty page
PagedThenEmpty(rs) ==
    /\ Len(rs) >= 1
    /\ EmptyOk(rs[Len(rs)])
    /\ \A i \in 1..(Len(rs) - 1) : NonEmptyOk(rs[i])

\* the header mapping of the call was built with an X-Page-Number entry
HasPageNumber(c) == c.name \in AccessorNames /\ Accessor[c.name].pageHeader

\* the accessor called goes through the Fetcher
IsFetchAccessor(c) == c.name \in AccessorNames /\ Accessor[c.name].kind = "fetch"

\* the scope list omits the scope string the accessor requires; for an
\* accessor that names no scope, the empty list omits whatever it requires
OmitsRequiredScope(c) ==
    /\ c.name \in AccessorNames
    /\ IF Accessor[c.name].scope = NoScope THEN scopes = {}
       ELSE Accessor[c.name].scope \notin scopes

\* the call went into fetch_data_from_api
Fetched(c) == c.fetch # "not_called"

\* ------------------------------------------------------------------------
\* Properties
\* ------------------------------------------------------------------------
\* C1: when the server answers n >= 0 non-empty pages p1..pn and then an
\* empty page, fetch_data_from_api returns p1 ++ ... ++ pn: every record of
\* every page, in page order, none dropped, duplicated or reordered.
C1_Concatenation ==
    \A t \in Threads :
        LET c == call[t] IN
        (Fetched(c) /\ PagedThenEmpty(c.responses)) =>
            /\ c.fetch = "returned"
            /\ c.data = Concat(PagesOf(c.responses, Len(c.responses) - 1))

C1_Witness ==
    \E t \in Threads :
        LET c == call[t] IN
        /\ c.fetch = "returned"
        /\ PagedThenEmpty(c.responses)
        /\ Len(c.responses) = 3
        /\ c.responses[1].data # c.responses[2].data
        /\ Len(c.data) >= 3

\* C2: when the server answers n non-empty pages and then an empty page,
\* the Fetcher sends exactly n+1 GET requests and stops, and the k-th
\* request carries page number start + k - 1 (the header mapping being one
\* that has a page number to start from).
C2_PageProgression ==
    \A t \in Threads :
        LET c == call[t] IN
        (Fetched(c) /\ HasPageNumber(c) /\ PagedThenEmpty(c.responses)) =>
            /\ c.phase = "done"
            /\ Len(c.requests) = Len(c.responses)
            /\ \A k \in 1..Len(c.requests) :
                   /\ c.requests[k].verb = "GET"
                   /\ c.requests[k].XPageNumber = Str(c.x_page_number + k - 1)

C2_Witness ==
    \E t \in Threads :
        LET c == call[t] IN
        /\ c.phase = "done"
        /\ PagedThenEmpty(c.responses)
        /\ c.x_page_number = 1
        /\ Len(c.requests) = 3
        /\ c.requests[3].XPageNumber = <<3>>

\* C3: an accessor called with a scope list that omits its required scope
\* returns an empty Tabular Result and sends no request.
C3_ScopeGate ==
    \A t \in Threads :
        LET c == call[t] IN
        OmitsRequiredScope(c) =>
            /\ c.requests = <<>>
            /\ c.phase \in {"done"}
            /\ c.result = EmptyDataFrame

\* C4: no accessor call propagates an exception to its caller.
C4_NoException ==
    \A t \in Threads : call[t].outcome # "raised"

\* C5: a token response without access_token does not make the constructor
\* raise and leaves the token attribute with the value None.
C5_TokenNone ==
    (pc # "new" /\ tokenResponse.received /\ tokenResponse.access_token = Missing) =>
        /\ pc = "ready"
        /\ access_token = None

\* C6: when the first GET gets a non-200 status, the Fetcher returns an empty
\* accumulated result after exactly one request, without raising.
C6_FirstPageError ==
    \A t \in Threads :
        LET c == call[t] IN
        (Fetched(c) /\ Len(c.responses) >= 1 /\ StatusError(c.responses[1])) =>
            /\ c.phase = "done"
            /\ c.fetch = "returned"
            /\ c.outcome = "returned"
            /\ c.data = <<>>
            /\ Len(c.requests) = 1

C6_Witness ==
    \E t \in Threads :
        LET c == call[t] IN
        /\ c.fetch = "returned"
        /\ Len(c.responses) = 1
        /\ StatusError(c.responses[1])
        /\ serverPages # <<>> /\ serverPages[1] # <<>>

\* C7: when the k-th GET is the first to get a non-success status, the
\* Fetcher sends no further request and returns normally the concatenation of
\* the k-1 pages before it, which the accessor makes its Tabular Result.
C7_PartialOnStatusError ==
    \A t \in Threads :
        LET c == call[t] IN
        \A k \in 1..Len(c.responses) :
            (/\ Fetched(c)
             /\ StatusError(c.responses[k])
             /\ \A i \in 1..(k - 1) : SuccessResponse(c.responses[i])) =>
                /\ Len(c.requests) = k
                /\ c.phase = "done"
                /\ c.fetch = "returned"
                /\ c.outcome = "returned"
                /\ c.data = Concat(PagesOf(c.responses, k - 1))
                /\ c.result = DataFrame(Concat(PagesOf(c.responses, k - 1)))

C7_Witness ==
    \E t \in Threads :
        LET c == call[t] IN
        /\ c.fetch = "returned"
        /\ Len(c.responses) = 3
        /\ StatusError(c.responses[3])
        /\ NonEmptyOk(c.responses[1]) /\ NonEmptyOk(c.responses[2])
        /\ Len(c.result.rows) >= 2

\* a remote call of the accessor failed: a non-success status or an exception
SomeCallFailed(c) ==
    \E i \in 1..Len(c.responses) : c.responses[i].raised \/ StatusError(c.responses[i])

\* the server had no records for the call: its first page came back empty
NoRecords(c) ==
    /\ Len(c.responses) >= 1
    /\ SuccessResponse(c.responses[1])
    /\ ~c.responses[1].data_null
    /\ JsonGetData(c.responses[1]) = <<>>

\* C8 as stated: the Tabular Result of an accessor is empty whenever a remote
\* call made during it fails, at whichever page, and when the scope check
\* fails or no records exist.
C8_EmptyOnAnyFailure ==
    \A t \in Threads :
        LET c == call[t] IN
        (/\ IsFetchAccessor(c)
         /\ c.phase = "done"
         /\ c.outcome = "returned"
         /\ (OmitsRequiredScope(c) \/ SomeCallFailed(c) \/ NoRecords(c))) =>
            c.result = EmptyDataFrame

\* C8 amended: the Tabular Result of an accessor that goes through the Fetcher
\* is empty when the scope check fails, when no records exist, when a request
\* raises an exception at any page, and when the first page gets a non-success
\* status; a non-success status at a later page leaves the records of the pages
\* before it as the result.
C8_EmptyOrPartial ==
    \A t \in Threads :
        LET c == call[t]
            n == Len(c.responses)
        IN
        (IsFetchAccessor(c) /\ c.phase = "done" /\ c.outcome = "returned") =>
            /\ (\/ OmitsRequiredScope(c)
                \/ NoRecords(c)
                \/ \E i \in 1..n : c.responses[i].raised
                \/ (n >= 1 /\ StatusError(c.responses[1])))
                   => c.result = EmptyDataFrame
            /\ (n > 1 /\ StatusError(c.responses[n]))
                   => /\ c.result = DataFrame(Concat(PagesOf(c.responses, n - 1)))
                      /\ c.result # EmptyDataFrame

C8_Witness ==
    \E t \in Threads :
        LET c == call[t] IN
        /\ IsFetchAccessor(c)
        /\ c.phase = "done"
        /\ Len(c.responses) = 2
        /\ StatusError(c.responses[2])
        /\ c.result.kind = "df"
        /\ c.result.rows # <<>>

\* C9: the client sends exactly one token request, at construction; whatever
\* accessor calls follow, no further token request is sent and the stored
\* token never changes.
C9_SingleTokenExchange ==
    /\ [](pc # "new" => tokenRequests = 1)
    /\ [][pc # "new" => (access_token' = access_token
                          /\ tokenRequests' = tokenRequests)]_vars

C9_Witness ==
    /\ pc = "ready"
    /\ tokenRequests = 1
    /\ access_token \in TokenValues
    /\ \E t \in Threads :
           /\ call[t].phase = "done"
           /\ Len(call[t].requests) >= 2
           /\ \E i \in 1..Len(call[t].responses) : StatusError(call[t].responses[i])

\* a response on which the loop of the Fetcher ends
Terminating(r) ==
    StatusError(r) \/ (SuccessResponse(r) /\ ~r.data_null /\ JsonGetData(r) = <<>>)

\* C10: fetch_data_from_api returns exactly when the server answers a success
\* response with an empty page or a non-success status: it has returned only
\* if its last response was one of these, it is still in its loop after any
\* number of non-empty pages, and against a server whose data set ends it
\* does come to an end.
C10_Termination ==
    /\ [](\A t \in Threads :
            LET c == call[t] IN
            Fetched(c) =>
                /\ (c.fetch = "returned") <=>
                       (c.responses # <<>> /\ Terminating(c.responses[Len(c.responses)]))
                /\ (HasPageNumber(c) /\ \A i \in 1..Len(c.responses) : NonEmptyOk(c.responses[i]))
                       => c.fetch = "running")
    /\ \A t \in MainThreads :
            (call[t].fetch = "running" /\ ~endless) ~> (call[t].fetch # "running")

C10_Witness ==
    \E t \in Threads :
        LET c == call[t] IN
        /\ c.fetch = "running"
        /\ endless
        /\ Len(c.responses) = MaxRequests
        /\ \A i \in 1..Len(c.responses) : NonEmptyOk(c.responses[i])

\* the page numbers a call asked for, in order
PagesAsked(c) == [i \in 1..Len(c.requests) |-> c.requests[i].XPageNumber]

\* C11: a read-only accessor called twice with the same arguments against an
\* unchanged data set gives the same Tabular Result and asks for the same
\* page numbers both times.
C11_Idempotent ==
    \A t \in Threads :
        LET c == call[t]
            p == prev[t]
        IN
        (/\ c.phase = "done"
         /\ p.name = c.name
         /\ p.x_page_number = c.x_page_number
         /\ p.healthy
         /\ \A i \in 1..Len(c.responses) : HealthyResponse(c.responses[i])) =>
            /\ c.outcome = p.outcome
            /\ c.result = p.result
            /\ PagesAsked(c) = p.pages

C11_Witness ==
    \E t \in Threads :
        LET c == call[t] IN
        /\ c.phase = "done"
        /\ prev[t].name = c.name
        /\ prev[t].x_page_number = c.x_page_number
        /\ Len(c.requests) >= 3
        /\ Len(c.result.rows) >= 2
        /\ c.result = prev[t].result

\* the accessors that create, update or delete
ChangeOps == {"create", "update", "delete"}

\* C12: a create, update or delete accessor never enters the paginated GET
\* Fetcher and every request it sends is a POST, a PATCH or a DELETE.
C12_DirectVerb ==
    \A t \in Threads :
        LET c == call[t] IN
        (c.name \in AccessorNames /\ Accessor[c.name].op \in ChangeOps) =>
            /\ ~Fetched(c)
            /\ \A i \in 1..Len(c.requests) :
                   c.requests[i].verb \in {"POST", "PATCH", "DELETE"}

\* C14: every request of every call carries the bearer token the client
\* stored at construction in its Authorization header.
C14_ClientToken ==
    \A t \in Threads :
        \A i \in 1..Len(call[t].requests) :
            call[t].requests[i].Authorization = Bearer(access_token)

\* C17: once the client is constructed, no step of any call changes its
\* scope list, its base URL or its bearer token, and the token is the one
\* the construction stored.
C17_ClientFrame ==
    /\ [](pc = "ready" => /\ access_token = TokenAfterInit(tokenResponse)
                          /\ base_url \in {BaseUrl(sr) : sr \in SchoolRoutes}
                          /\ scopes \in ScopeLists)
    /\ [][pc = "ready" => /\ pc' = "ready"
                          /\ UNCHANGED <<scopes, base_url, access_token>>]_vars

C17_Witness ==
    /\ pc = "ready"
    /\ scopes = AllScopes
    /\ \E t \in Threads :
           /\ call[t].name = "update_academics_rubric_criteria"
           /\ call[t].phase = "done"
           /\ Len(call[t].requests) = 1
           /\ call[t].requests[1].Authorization # Bearer(access_token)

\* the line of the last def of a name in the class body
LaterLine(name) ==
    MaxOf({ClassBody[i].line : i \in {j \in DOMAIN ClassBody : ClassBody[j].name = name}})

\* C18: a call by a name that is defined twice runs the later definition:
\* it is at the later def's line, and it has the later one's scope check and
\* parameters (get_academics_classes always asks for page 1,
\* get_assignment_grades needs 'academics.assignments.grades:read',
\* get_relationships checks no scope and sends no page number).
C18_LaterDefinition ==
    \A t \in Threads :
        LET c == call[t] IN
        c.name \in AccessorNames =>
            /\ c.line = LaterLine(c.name)
            /\ c.name = "get_academics_classes" =>
                   /\ c.line = 909
                   /\ c.requests # <<>> => c.requests[1].XPageNumber = Str(1)
            /\ c.name = "get_assignment_grades" =>
                   /\ c.line = 156
                   /\ c.requests # <<>> =>
                          "academics.assignments.grades:read" \in scopes
                   /\ ("academics.assignments.grades:read" \in scopes
                       /\ access_token # Unset) => Fetched(c)
            /\ c.name = "get_relationships" =>
                   /\ c.line = 8594
                   /\ c.headers.XPageNumber = NoHeader
                   /\ access_token # Unset => Fetched(c)

C18_Witness ==
    \E t \in Threads :
        LET c == call[t] IN
        /\ c.name = "get_relationships"
        /\ c.line = 8594
        /\ scopes = {}
        /\ c.phase = "done"
        /\ Len(c.requests) = 1
        /\ NonEmptyOk(c.responses[1])

\* a call of an accessor that hands the Fetcher headers without a page number
NoPageFetch(c) ==
    /\ c.name \in AccessorNames
    /\ Accessor[c.name].kind \in {"fetch", "fetch_discard", "fetch_then_patch"}
    /\ ~Accessor[c.name].pageHeader

C13_NoRecovery ==
    /\ [](\A t \in Threads :
              LET c == call[t] IN
              (rejecting /\ c.responses # <<>> /\ StatusError(c.responses[1])) =>
                  /\ Len(c.requests) = 1
                  /\ c.phase = "done"
                  /\ c.outcome = "returned"
                  /\ c.result = EmptyDataFrame)
    /\ [][rejecting =>
              /\ rejecting'
              /\ access_token' = access_token
              /\ tokenRequests' = tokenRequests
              /\ \A t \in Threads :
                     Len(call'[t].responses) > Len(call[t].responses) =>
                         StatusError(call'[t].responses[Len(call'[t].responses)])]_vars

C13_Witness ==
    /\ rejecting
    /\ tokenRequests = 1
    /\ \E t \in Threads :
           LET c == call[t] IN
           /\ c.name = "get_students"
           /\ c.phase = "done"
           /\ Len(c.requests) = 1
           /\ StatusError(c.responses[1])
           /\ c.result = EmptyDataFrame

\* the named columns are columns of the frame and hold objects or None
Expandable(df, columns_to_expand) ==
    \A i \in DOMAIN columns_to_expand :
        /\ columns_to_expand[i] \in Range(df.columns)
        /\ \A r \in DOMAIN df.rows :
               Cell(df, r, columns_to_expand[i]).tag \in {"dict", "none"}

\* the cell of row r under the label name is v, in some column of that label
HasCell(out, r, name, v) ==
    \E j \in DOMAIN out.columns : out.columns[j] = name /\ out.rows[r][j] = v

\* the frame and the result of the example: [{"a": {"x":1,"y":2}, "b": 5}]
ExampleFrame ==
    Frame(<<ColA, ColB>>,
          << <<DictV(<< <<KeySeq[1], IntV(1)>>, <<KeySeq[2], IntV(2)>> >>), IntV(5)>> >>)
ExampleResult ==
    Frame(<<ColB, NewColName(ColA, KeySeq[1]), NewColName(ColA, KeySeq[2])>>,
          << <<IntV(5), IntV(1), IntV(2)>> >>)

\* C15: expand_dict_columns returns a frame in which, for every row and
\* every named column that holds an object, each key k of the object is a
\* column "<column>_<k>" with the key's value; a named column that holds None
\* gives the row no value; the named columns are gone; every other column
\* has its values; and the example gives [{"b":5, "a_x":1, "a_y":2}].
C15_Flatten ==
    LET df == flat.df
        cte == flat.columns_to_expand
        out == flat.res.out
    IN  (flat.phase = "done" /\ Expandable(df, cte)) =>
            /\ flat.res.outcome = "returned"
            /\ DOMAIN out.rows = DOMAIN df.rows
            /\ \A r \in DOMAIN df.rows, i \in DOMAIN cte :
                   LET cell == Cell(df, r, cte[i]) IN
                   /\ cell.tag = "dict" =>
                          \A k \in DOMAIN cell.items :
                              HasCell(out, r, NewColName(cte[i], cell.items[k][1]),
                                      cell.items[k][2])
                   /\ cell.tag = "none" =>
                          \A j \in DOMAIN out.columns :
                              (\E key \in Range(KeySeq) :
                                   out.columns[j] = NewColName(cte[i], key)) =>
                                  \/ out.rows[r][j] = NaNV
                                  \/ \E i2 \in DOMAIN cte :
                                         /\ i2 # i
                                         /\ \E k \in DOMAIN Cell(df, r, cte[i2]).items :
                                                out.columns[j] = NewColName(cte[i2],
                                                    Cell(df, r, cte[i2]).items[k][1])
            /\ \A i \in DOMAIN cte : cte[i] \notin Range(out.columns)
            /\ \A p \in DOMAIN df.columns :
                   df.columns[p] \notin Range(cte) =>
                       \A r \in DOMAIN df.rows :
                           HasCell(out, r, df.columns[p], df.rows[r][p])
            /\ (df = ExampleFrame /\ cte = <<ColA>>) => out = ExampleResult

\* the (column, key, value) items the named columns' objects give row r
ItemsOfRow(df, r, columns_to_expand) ==
    UNION {{<<columns_to_expand[i], Cell(df, r, columns_to_expand[i]).items[k][1],
              Cell(df, r, columns_to_expand[i]).items[k][2]>> :
                k \in DOMAIN Cell(df, r, columns_to_expand[i]).items} :
           i \in DOMAIN columns_to_expand}

BadArgsCall(c) ==
    /\ c.name \in AccessorNames
    /\ Accessor[c.name].kind \in {"fetch_badargs", "fetch_badargs_df"}

NoScopeCall(c) ==
    /\ c.name \in AccessorNames
    /\ Accessor[c.name].scope = NoScope
    /\ AcceptsCall(Accessor[c.name].kind)

\* C22: an accessor without a scope check goes on to its request whatever
\* the scope list is: with a token it is sending or has sent a request, and
\* the call it starts is the same for every scope list.
C22_NoScopeCheck ==
    /\ [](\A t \in Threads :
              LET c == call[t] IN
              (NoScopeCall(c) /\ access_token # Unset) =>
                  \/ c.phase \in {"fetching", "patching"}
                  \/ c.phase = "done" /\ Len(c.requests) >= 1)
    /\ [][\A t \in Threads :
              (/\ call[t].phase = "idle"
               /\ call'[t].phase # "idle"
               /\ Accessor[call'[t].name].scope = NoScope) =>
                  \A sc \in ScopeLists :
                      \E p \in PageArgs(call'[t].name), a \in AuthArgs(call'[t].name) :
                          call'[t] = BeginCall(call'[t].name, p, a, sc, access_token)]_vars

C22_Witness ==
    /\ scopes = {}
    /\ \E t \in Threads :
           LET c == call[t] IN
           /\ c.name = "update_behavior"
           /\ c.phase = "done"
           /\ Len(c.requests) = 1
           /\ c.requests[1].verb = "PATCH"
           /\ c.result.rows # <<>>

\* C23: when the k-th GET of a fetch, k > 1, raises after k-1 non-empty
\* pages, no further request is sent and the accessor returns an empty
\* result, the k-1 pages being lost; when the k-th GET gets a non-success
\* status instead, the accessor returns those k-1 pages.
C23_ExceptionDiscardsPages ==
    \A t \in Threads :
        LET c == call[t] IN
        \A k \in 2..Len(c.responses) :
            (Fetched(c) /\ \A i \in 1..(k - 1) : NonEmptyOk(c.responses[i])) =>
                /\ c.responses[k].raised =>
                       /\ Len(c.requests) = k
                       /\ c.phase = "done"
                       /\ c.fetch = "raised"
                       /\ c.outcome = "returned"
                       /\ c.result = EmptyDataFrame
                /\ StatusError(c.responses[k]) =>
                       /\ Len(c.requests) = k
                       /\ c.phase = "done"
                       /\ c.result.rows = Concat(PagesOf(c.responses, k - 1))
                       /\ c.result.rows # <<>>

C23_Witness ==
    \E t \in Threads :
        LET c == call[t] IN
        /\ c.name = "get_academics_classes"
        /\ Len(c.responses) = 3
        /\ NonEmptyOk(c.responses[1]) /\ NonEmptyOk(c.responses[2])
        /\ c.responses[3].raised
        /\ c.phase = "done"
        /\ c.result = EmptyDataFrame

\* a success response whose 'data' is missing or is the empty list
MissingOrEmpty(r) ==
    SuccessResponse(r) /\ ~r.data_null /\ (~r.has_data \/ r.data = <<>>)

\* the Fetcher went on after its k-th response: the page is in the
\* accumulator and the next request, made or to be made, is for the next page
WentOn(c, k) ==
    /\ Len(c.requests) = k =>
           /\ c.fetch = "running"
           /\ c.data = Concat(PagesOf(c.responses, k))
           /\ c.headers.XPageNumber = Str(Int_(c.requests[k].XPageNumber) + 1)
    /\ Len(c.requests) > k =>
           c.requests[k + 1].XPageNumber = Str(Int_(c.requests[k].XPageNumber) + 1)

\* the Fetcher returned at its k-th response what it had before it
StoppedAt(c, k) ==
    /\ Len(c.requests) = k
    /\ c.fetch = "returned"
    /\ c.data = Concat(PagesOf(c.responses, k - 1))

\* C24 as stated: on a success response the Fetcher stops exactly when 'data'
\* is missing or the empty list, returning what it accumulated; any other
\* 'data' value is appended and followed by a request for the next page.
C24_StopsOnMissingOrEmpty ==
    \A t \in Threads :
        LET c == call[t] IN
        (HasPageNumber(c) /\ Fetched(c)) =>
            \A k \in 1..Len(c.responses) :
                (/\ SuccessResponse(c.responses[k])
                 /\ \A i \in 1..(k - 1) : NonEmptyOk(c.responses[i])) =>
                    IF MissingOrEmpty(c.responses[k]) THEN StoppedAt(c, k)
                    ELSE WentOn(c, k)

\* C24 amended: on a success response the Fetcher stops when 'data' is
\* missing or the empty list, returning what it accumulated; a non-empty
\* list is appended and followed by a request for the next page; a null
\* 'data' ends the loop with a TypeError and the accessor returns an empty
\* result.
C24_StopsOrRaises ==
    \A t \in Threads :
        LET c == call[t] IN
        (HasPageNumber(c) /\ Fetched(c)) =>
            \A k \in 1..Len(c.responses) :
                (/\ SuccessResponse(c.responses[k])
                 /\ \A i \in 1..(k - 1) : NonEmptyOk(c.responses[i])) =>
                    /\ MissingOrEmpty(c.responses[k]) => StoppedAt(c, k)
                    /\ NonEmptyOk(c.responses[k]) => WentOn(c, k)
                    /\ c.responses[k].data_null =>
                           /\ Len(c.requests) = k
                           /\ c.phase = "done"
                           /\ c.fetch = "raised"
                           /\ c.exc = "TypeError"
                           /\ c.result = EmptyDataFrame

C24_Witness ==
    \E t \in Threads :
        LET c == call[t] IN
        /\ HasPageNumber(c)
        /\ Len(c.responses) = 3
        /\ NonEmptyOk(c.responses[1]) /\ NonEmptyOk(c.responses[2])
        /\ c.responses[3].data_null
        /\ c.fetch = "raised"
        /\ c.result = EmptyDataFrame

\* ------------------------------------------------------------------------
\* C25
\* ------------------------------------------------------------------------
\* the non-empty pages the Fetcher of this call has received
NonEmptyPages(c) ==
    {k \in 1..Len(c.responses) :
        c.requests[k].verb = "GET" /\ NonEmptyOk(c.responses[k])}

\* C25: when fetch_data_from_api has returned, the header mapping's
\* Authorization entry is the client's bearer token, its page-number entry
\* is the initial page number plus the number of non-empty pages received
\* (and still absent if it was absent), and the params mapping and the
\* other header entry are what the accessor handed over.
C25_FrameOfFetcher ==
    \A t \in Threads :
        LET c == call[t] IN
        c.fetch = "returned" =>
            /\ c.headers.Authorization = Bearer(access_token)
            /\ HasPageNumber(c) =>
                   c.headers.XPageNumber =
                       Str(c.x_page_number + Cardinality(NonEmptyPages(c)))
            /\ ~HasPageNumber(c) => c.headers.XPageNumber = NoHeader
            /\ c.headers.XAPIRevision = XAPIRevisionHeader
            /\ c.params = BuildParams(c.name)

\* a paged call whose Fetcher returned after two non-empty pages
C25_Witness ==
    \E t \in Threads :
        LET c == call[t] IN
        /\ c.fetch = "returned"
        /\ HasPageNumber(c)
        /\ Cardinality(NonEmptyPages(c)) = 2
        /\ c.headers.XPageNumber = Str(c.x_page_number + 2)
        /\ c.params = BuildParams(c.name)

\* ------------------------------------------------------------------------
\* C26
\* ------------------------------------------------------------------------
\* the accessor called takes the page to start from as x_page_number
TakesPageArg(c) ==
    c.name \in AccessorNames /\ Accessor[c.name].pageHeader /\ Accessor[c.name].pageArg

\* the server's pages p, p+1, ..., p+n-1
ServerPagesFrom(p, n) == [i \in 1..n |-> PageAt(Str(p + i - 1))]

\* C26: a list accessor called with x_page_number = p sends its first
\* request with page number p and never asks for a page before p; answered
\* with non-empty pages and then an empty one, it returns the records of
\* the server's pages p, p+1, ... up to that empty page and nothing else.
C26_PageOverride ==
    \A t \in Threads :
        LET c == call[t] IN
        (Fetched(c) /\ TakesPageArg(c)) =>
            /\ c.requests # <<>> => c.requests[1].XPageNumber = Str(c.x_page_number)
            /\ \A k \in 1..Len(c.requests) :
                   Int_(c.requests[k].XPageNumber) >= c.x_page_number
            /\ (c.phase = "done" /\ PagedThenEmpty(c.responses)) =>
                   c.result = DataFrame(Concat(
                       ServerPagesFrom(c.x_page_number, Len(c.responses) - 1)))

\* a call that starts at page 2 of a two-page data set and returns the
\* second page only
C26_Witness ==
    \E t \in Threads :
        LET c == call[t] IN
        /\ TakesPageArg(c)
        /\ c.x_page_number = 2
        /\ c.phase = "done"
        /\ PagedThenEmpty(c.responses)
        /\ Len(c.requests) = 2
        /\ c.requests[1].XPageNumber = <<2>>
        /\ Len(serverPages) = 2
        /\ serverPages[1] # serverPages[2]
        /\ c.result = DataFrame(serverPages[2])

\* ------------------------------------------------------------------------
\* C27
\* ------------------------------------------------------------------------
\* the call as the accessor starts it
Started(c) == BeginCall(c.name, c.x_page_number, access_token, scopes, access_token)

\* the call after k requests of a Fetcher that runs with no other call
\* beside it
RECURSIVE StepsAlone(_, _)
StepsAlone(c, k) ==
    IF k = 0 \/ c.phase # "fetching" THEN c
    ELSE StepsAlone(AfterGet(c, "ok"), k - 1)

\* the call run alone to its end
RunAlone(c) == StepsAlone(c, MaxRequests)

\* C27: with two calls on one client interleaved request by request against
\* a stable server, each call is at every moment where the same call run
\* alone is after as many requests (same header mapping, same accumulator,
\* same pages asked), and it ends with the pages asked and the result of
\* the call run alone.
C27_Isolation ==
    \A t \in Threads :
        LET c == call[t] IN
        c.phase # "idle" =>
            /\ c = StepsAlone(Started(c), Len(c.requests))
            /\ c.phase = "done" =>
                   /\ PagesAsked(c) = PagesAsked(RunAlone(Started(c)))
                   /\ c.result = RunAlone(Started(c)).result

\* two calls of get_students from page 1 in the middle of their loops, one
\* a request ahead of the other
C27_Witness ==
    /\ call[1].name = "get_students" /\ call[2].name = "get_students"
    /\ call[1].phase = "fetching" /\ call[2].phase = "fetching"
    /\ call[1].x_page_number = 1 /\ call[2].x_page_number = 1
    /\ Len(call[1].requests) = 2 /\ Len(call[2].requests) = 1
    /\ call[1].headers.XPageNumber = <<3>>
    /\ call[2].headers.XPageNumber = <<2>>
    /\ call[1].data = serverPages[1] \o serverPages[2]
    /\ call[2].data = serverPages[1]

====
